---- MODULE Spec2Model ----
(***************************************************************************)
(* Model of package slice (src/slice.go): a length/capacity view over a    *)
(* shared backing buffer, with sub-views, amortised-growth Append and      *)
(* element-wise Copy.                                                      *)
(*                                                                         *)
(* heap    the live backing buffers (Go's make([]T, l, c)); buffer b is    *)
(*         heap[b], a sequence of element values                           *)
(* views   the non-nil Slice values the client currently holds             *)
(* last    the call that panicked and its panic value; "none" and "ok"     *)
(*         while the program runs                                          *)
(* capq    the most recent direct evaluation of nextSliceCapacity          *)
(***************************************************************************)
EXTENDS Integers, Sequences, FiniteSets, TLC

VARIABLES heap, views, last, capq

vars == <<heap, views, last, capq>>

\* ---------------------------------------------------------------- bounds
MaxCap == 3    \* size and index arguments of a call range over -1..MaxCap+1
MaxCells == 3  \* elements of backing storage alive at once
MaxViews == 2  \* non-nil views the client holds at once
MaxElems == 2  \* values handed to one Append or New
MaxVal == 1    \* element values are 0..MaxVal (0 is T's zero value)
IntBits == 16  \* width of Go's int in the model

Values == 0..MaxVal
TwoW == 2 ^ IntBits
HalfW == 2 ^ (IntBits - 1)
MaxInt == HalfW - 1

\* ------------------------------------------------------- machine integers
\* int arithmetic wraps (two's complement)
Wrap(x) == LET m == x % TwoW IN IF m >= HalfW THEN m - TwoW ELSE m

\* conversion int -> uint
uint(x) == x % TwoW

\* Go's integer division truncates toward zero
Quo(a, b) == IF a >= 0 THEN a \div b ELSE -((-a) \div b)

\* ------------------------------------------------------------ the struct
\* array is a pointer to a Go slice header: nil, or (buffer, offset, len, cap)
NilArray == [nil |-> TRUE, buf |-> 0, off |-> 0, len |-> 0, cap |-> 0]

\* the zero value of Slice[T]
NilSlice == [array |-> NilArray, length |-> 0, capacity |-> 0]

IsNil(s) == s.array.nil

SliceLen(s) == s.length

SliceCap(s) == s.capacity

\* outcome of a call: panic value ("ok" when it returns), the heap it leaves,
\* the view it returns and the scalar it returns
Ret(e, h, v, x) == [err |-> e, heap |-> h, res |-> v, val |-> x]

NilDeref == "runtime error: nil pointer dereference"
BoundsPanic == "runtime error: index or slice bounds out of range"

\* ------------------------------------------------------------------ Make
extractMakeIndexes(size) ==
  IF Len(size) = 0 THEN [err |-> "missing size arguments", length |-> 0, capacity |-> 0]
  ELSE IF Len(size) > 2 THEN [err |-> "too many arguments", length |-> 0, capacity |-> 0]
  ELSE LET length   == size[1]
           capacity == IF Len(size) = 2 THEN size[2] ELSE length
       IN IF length < 0 THEN [err |-> "negative slice length", length |-> length, capacity |-> capacity]
          ELSE IF capacity < 0 THEN [err |-> "negative slice capacity", length |-> length, capacity |-> capacity]
          ELSE IF length > capacity THEN [err |-> "slice length greater than capacity", length |-> length, capacity |-> capacity]
          ELSE [err |-> "ok", length |-> length, capacity |-> capacity]

Make(h, size) ==
  LET r == extractMakeIndexes(size) IN
  IF r.err # "ok" THEN Ret("slice.Make: " \o r.err, h, NilSlice, 0)
  ELSE Ret("ok",
           Append(h, [i \in 1..r.capacity |-> 0]),
           [array    |-> [nil |-> FALSE, buf |-> Len(h) + 1, off |-> 0,
                          len |-> r.length, cap |-> r.capacity],
            length   |-> r.length,
            capacity |-> r.capacity],
           0)

\* --------------------------------------------------------------- Get, Set
Get(h, s, idx) ==
  IF idx < 0 \/ idx >= SliceLen(s) THEN Ret("slice.Get: index out of range", h, NilSlice, 0)
  ELSE IF s.array.nil THEN Ret(NilDeref, h, NilSlice, 0)
  ELSE IF idx >= s.array.len THEN Ret(BoundsPanic, h, NilSlice, 0)
  ELSE Ret("ok", h, NilSlice, h[s.array.buf][s.array.off + idx + 1])

\* Set with the index checked against the capacity instead of the length
SetWithinCap(h, s, idx, val) ==
  IF s.array.nil THEN Ret(NilDeref, h, NilSlice, 0)
  ELSE IF idx < 0 \/ idx >= s.array.cap THEN Ret("slice.Set: index out of range", h, NilSlice, 0)
  ELSE Ret("ok", [h EXCEPT ![s.array.buf][s.array.off + idx + 1] = val], NilSlice, 0)

Set(h, s, idx, val) ==
  IF s.array.nil THEN Ret(NilDeref, h, NilSlice, 0)
  ELSE IF idx < 0 \/ idx >= s.array.len THEN Ret("slice.Set: index out of range", h, NilSlice, 0)
  ELSE Ret("ok", [h EXCEPT ![s.array.buf][s.array.off + idx + 1] = val], NilSlice, 0)

\* ---------------------------------------------------------------- Sliced
extractSlicedIndexes(s, indexes) ==
  IF Len(indexes) < 2 \/ Len(indexes) > 3
  THEN [err |-> "invalid count of indexes", low |-> 0, high |-> 0, newCap |-> 0]
  ELSE LET low    == indexes[1]
           high   == indexes[2]
           newCap == IF Len(indexes) = 3 THEN indexes[3] ELSE SliceCap(s)
       IN IF low < 0 \/ high < 0 \/ low > high \/ high > SliceCap(s)
          THEN [err |-> "index out of bound", low |-> low, high |-> high, newCap |-> 0]
          ELSE IF newCap < high \/ newCap > SliceCap(s)
          THEN [err |-> "index out of bound", low |-> low, high |-> high, newCap |-> newCap]
          ELSE [err |-> "ok", low |-> low, high |-> high, newCap |-> newCap]

\* Sliced that keeps the parent's capacity figure: capacity newCap, not newCap - low
SlicedFullCap(h, s, indexes) ==
  LET r == extractSlicedIndexes(s, indexes) IN
  IF r.err # "ok" THEN Ret("slice.Sliced: " \o r.err, h, NilSlice, 0)
  ELSE IF s.array.nil THEN Ret(NilDeref, h, NilSlice, 0)
  ELSE IF r.newCap > s.array.cap THEN Ret(BoundsPanic, h, NilSlice, 0)
  ELSE Ret("ok", h,
           [array    |-> [nil |-> FALSE, buf |-> s.array.buf, off |-> s.array.off + r.low,
                          len |-> r.high - r.low, cap |-> r.newCap],
            length   |-> r.high - r.low,
            capacity |-> r.newCap],
           0)

\* Sliced that copies the selected range into a buffer of its own
SlicedCopy(h, s, indexes) ==
  LET r == extractSlicedIndexes(s, indexes) IN
  IF r.err # "ok" THEN Ret("slice.Sliced: " \o r.err, h, NilSlice, 0)
  ELSE IF s.array.nil THEN Ret(NilDeref, h, NilSlice, 0)
  ELSE IF r.newCap > s.array.cap THEN Ret(BoundsPanic, h, NilSlice, 0)
  ELSE Ret("ok",
           Append(h, [i \in 1..(r.newCap - r.low) |-> h[s.array.buf][s.array.off + r.low + i]]),
           [array    |-> [nil |-> FALSE, buf |-> Len(h) + 1, off |-> 0,
                          len |-> r.high - r.low, cap |-> r.newCap - r.low],
            length   |-> r.high - r.low,
            capacity |-> r.newCap - r.low],
           0)

Sliced(h, s, indexes) ==
  LET r == extractSlicedIndexes(s, indexes) IN
  IF r.err # "ok" THEN Ret("slice.Sliced: " \o r.err, h, NilSlice, 0)
  ELSE IF s.array.nil THEN Ret(NilDeref, h, NilSlice, 0)
  ELSE IF r.newCap > s.array.cap THEN Ret(BoundsPanic, h, NilSlice, 0)
  ELSE Ret("ok", h,
           [array    |-> [nil |-> FALSE, buf |-> s.array.buf, off |-> s.array.off + r.low,
                          len |-> r.high - r.low, cap |-> r.newCap - r.low],
            length   |-> r.high - r.low,
            capacity |-> r.newCap - r.low],
           0)

\* ---------------------------------------------------------- growth policy
threshold == 1024

\* the for-loop of nextSliceCapacity: newCap += newCap / 4 until
\* uint(newCap) >= uint(newLen)
RECURSIVE capLoop(_, _)
capLoop(newCap, newLen) ==
  LET c == Wrap(newCap + Quo(newCap, 4)) IN
  IF uint(c) >= uint(newLen) THEN c ELSE capLoop(c, newLen)

\* nextSliceCapacity doubling up to and including threshold
nextSliceCapacityLate(newLen, oldCap) ==
  LET doubleCap == Wrap(oldCap + oldCap) IN
  IF newLen > doubleCap THEN newLen
  ELSE IF oldCap <= threshold THEN doubleCap
  ELSE LET newCap == capLoop(oldCap, newLen) IN
       IF newCap <= 0 THEN newLen ELSE newCap

nextSliceCapacity(newLen, oldCap) ==
  LET doubleCap == Wrap(oldCap + oldCap) IN
  IF newLen > doubleCap THEN newLen
  ELSE IF oldCap < threshold THEN doubleCap
  ELSE LET newCap == capLoop(oldCap, newLen) IN
       IF newCap <= 0 THEN newLen ELSE newCap

\* ------------------------------------------------------ growSlice, Append
\* for i := from; i < s.Len(); i++ { newS.Set(i, s.Get(i)) }
RECURSIVE growLoop(_, _, _, _)
growLoop(h, newS, s, i) ==
  IF i >= SliceLen(s) THEN Ret("ok", h, newS, 0)
  ELSE LET g == Get(h, s, i) IN
       IF g.err # "ok" THEN g
       ELSE LET w == Set(h, newS, i, g.val) IN
            IF w.err # "ok" THEN w ELSE growLoop(w.heap, newS, s, i + 1)

\* growSlice that allocates and forgets to copy the elements
growSliceNoCopy(h, s, newLen) ==
  LET newCap == nextSliceCapacity(newLen, SliceCap(s)) IN
  Make(h, <<newLen, newCap>>)

growSlice(h, s, newLen) ==
  LET newCap == nextSliceCapacity(newLen, SliceCap(s))
      m      == Make(h, <<newLen, newCap>>)
  IN IF m.err # "ok" THEN m ELSE growLoop(m.heap, m.res, s, 0)

\* for i := s.Len(); i < resLen; i++ { res.Set(i, elems[i-s.Len()]) }
RECURSIVE appendLoop(_, _, _, _, _, _)
appendLoop(h, res, s, elems, i, resLen) ==
  IF i >= resLen THEN Ret("ok", h, res, 0)
  ELSE LET w == Set(h, res, i, elems[i - SliceLen(s) + 1]) IN
       IF w.err # "ok" THEN w ELSE appendLoop(w.heap, res, s, elems, i + 1, resLen)

\* Append that grows whenever it appends, also within capacity
AppendAlwaysGrow(h, s, elems) ==
  LET resLen == Wrap(SliceLen(s) + Len(elems))
      r      == IF resLen <= SliceLen(s) THEN Sliced(h, s, <<0, resLen>>)
                ELSE growSlice(h, s, resLen)
  IN IF r.err # "ok" THEN r
     ELSE appendLoop(r.heap, r.res, s, elems, SliceLen(s), resLen)

SliceAppend(h, s, elems) ==
  LET resLen == Wrap(SliceLen(s) + Len(elems))
      r      == IF resLen <= SliceCap(s) THEN Sliced(h, s, <<0, resLen>>)
                ELSE growSlice(h, s, resLen)
  IN IF r.err # "ok" THEN r
     ELSE appendLoop(r.heap, r.res, s, elems, SliceLen(s), resLen)

\* ------------------------------------------------------------------ Copy
\* for i := from; i < minLen; i++ { dst.Set(i, src.Get(i)) }
RECURSIVE copyLoop(_, _, _, _, _)
copyLoop(h, dst, src, i, minLen) ==
  IF i >= minLen THEN Ret("ok", h, NilSlice, minLen)
  ELSE LET g == Get(h, src, i) IN
       IF g.err # "ok" THEN g
       ELSE LET w == Set(h, dst, i, g.val) IN
            IF w.err # "ok" THEN w ELSE copyLoop(w.heap, dst, src, i + 1, minLen)

\* Copy that takes dst's length for the count
CopyDstLen(h, dst, src) ==
  copyLoop(h, dst, src, 0, SliceLen(dst))

Copy(h, dst, src) ==
  LET minLen == IF SliceLen(src) < SliceLen(dst) THEN SliceLen(src) ELSE SliceLen(dst)
  IN copyLoop(h, dst, src, 0, minLen)

\* New(elems...): Make(len(elems)) then Set(i, elems[i]) in index order
RECURSIVE newLoop(_, _, _, _)
newLoop(h, s, elems, i) ==
  IF i >= Len(elems) THEN Ret("ok", h, s, 0)
  ELSE LET w == Set(h, s, i, elems[i + 1]) IN
       IF w.err # "ok" THEN w ELSE newLoop(w.heap, s, elems, i + 1)

New(h, elems) ==
  LET m == Make(h, <<Len(elems)>>) IN
  IF m.err # "ok" THEN m ELSE newLoop(m.heap, m.res, elems, 0)

\* ------------------------------------------------------- the client's calls
\* argument domains of the calls
IntArgs == -1..(MaxCap + 1)
SizeArgs == {<<>>, <<0, 0, 0>>} \cup [1..1 -> IntArgs] \cup [1..2 -> IntArgs]
IndexArgs == {<<>>, <<0>>, <<0, 0, 0, 0>>} \cup [1..2 -> IntArgs] \cup [1..3 -> IntArgs]
ElemArgs == UNION {[1..k -> Values] : k \in 0..MaxElems}

\* views a call can be made on: the ones held, and the zero value
Operands == views \cup {NilSlice}

\* Storage lives as long as a view references it (garbage collection): the
\* buffers no held view references are reclaimed, the others keep their
\* order.  A buffer's identity is its position in heap.
Live(vs) == {v.array.buf : v \in {w \in vs : ~w.array.nil}}

Rank(b, live) == Cardinality({x \in live : x <= b})

Moved(v, live) == IF v.array.nil THEN v ELSE [v EXCEPT !.array.buf = Rank(@, live)]

Reclaim(h, live) ==
  [i \in 1..Cardinality(live) |-> h[CHOOSE b \in live : Rank(b, live) = i]]

RECURSIVE Cells(_)
Cells(h) == IF h = <<>> THEN 0 ELSE Len(Head(h)) + Cells(Tail(h))

\* the sets of views the client may hold after a call returned res: it keeps
\* res, and drops one view when it would hold more than MaxViews
Keeps(res) ==
  IF res.array.nil \/ res \in views THEN {views}
  ELSE IF Cardinality(views) < MaxViews THEN {views \cup {res}}
  ELSE {(views \ {d}) \cup {res} : d \in views}

\* the state a call leaves: r is the call's outcome.  A panic is not
\* recovered: it ends the program, so no call follows one.
Returned(op, r) ==
  /\ last.err = "ok"
  /\ UNCHANGED capq
  /\ IF r.err # "ok"
     THEN /\ heap' = r.heap
          /\ views' = views
          /\ last' = [op |-> op, err |-> r.err]
     ELSE \E kept \in Keeps(r.res) :
            LET live == Live(kept) IN
            /\ heap'  = Reclaim(r.heap, live)
            /\ views' = {Moved(v, live) : v \in kept}
            /\ last'  = [op |-> "none", err |-> "ok"]
            /\ Cells(heap') <= MaxCells

Init ==
  /\ heap = <<>>
  /\ views = {}
  /\ last = [op |-> "none", err |-> "ok"]
  /\ capq = [newLen |-> 1, oldCap |-> 0, ret |-> 1]

MakeOp ==
  \E size \in SizeArgs : Returned("Make", Make(heap, size))

NewOp ==
  \E elems \in ElemArgs : Returned("New", New(heap, elems))

GetOp ==
  \E s \in Operands, idx \in IntArgs : Returned("Get", Get(heap, s, idx))

SetOp ==
  \E s \in Operands, idx \in IntArgs, val \in Values :
    Returned("Set", Set(heap, s, idx, val))

SlicedOp ==
  \E s \in Operands, indexes \in IndexArgs :
    Returned("Sliced", Sliced(heap, s, indexes))

AppendOp ==
  \E s \in Operands, elems \in ElemArgs :
    Returned("Append", SliceAppend(heap, s, elems))

CopyOp ==
  \E dst \in Operands, src \in Operands :
    Returned("Copy", Copy(heap, dst, src))

Next ==
  \/ MakeOp
  \/ NewOp
  \/ GetOp
  \/ SetOp
  \/ SlicedOp
  \/ AppendOp
  \/ CopyOp

Spec == Init /\ [][Next]_vars

\* --------------------------------------- nextSliceCapacity on its own
\* capacities and lengths the function is evaluated on: the small ones, the
\* ones around threshold, and a grid over the whole int range with its
\* neighbours
CapStep == 2 ^ (IntBits - 6)
CapArgs ==
  (0..8) \cup ((threshold - 2)..(threshold + 2))
         \cup {k * CapStep + d : k \in 1..31, d \in {-1, 0, 1}}
LenArgs(oldCap) ==
  {n \in {oldCap + 1, oldCap + 2, oldCap + 3,
          oldCap + (oldCap \div 4), oldCap + (oldCap \div 4) + 1,
          oldCap + (oldCap \div 2), oldCap + (oldCap \div 2) + (oldCap \div 16) + 1,
          2 * oldCap - (oldCap \div 32), 2 * oldCap - 1, 2 * oldCap, 2 * oldCap + 1,
          2 * oldCap + 2, MaxInt - 1, MaxInt} :
     oldCap < n /\ n <= MaxInt}

Evaluated(newLen, oldCap) ==
  [newLen |-> newLen, oldCap |-> oldCap, ret |-> nextSliceCapacity(newLen, oldCap)]

InitCap ==
  /\ heap = <<>>
  /\ views = {}
  /\ last = [op |-> "none", err |-> "ok"]
  /\ capq = Evaluated(1, 0)

CapOp ==
  /\ \E oldCap \in CapArgs : \E newLen \in LenArgs(oldCap) :
       capq' = Evaluated(newLen, oldCap)
  /\ UNCHANGED <<heap, views, last>>

NextCap == CapOp

SpecCap == InitCap /\ [][NextCap]_vars

\* ===================================================================== claims
\* the program has not panicked
Running == last.err = "ok"

\* the storage slot behind index i of view s: (buffer, position in it)
Slot(s, i) == <<s.array.buf, s.array.off + i>>

\* the value stored in heap h behind index i of view s, i < s.capacity
Cell(h, s, i) == h[s.array.buf][s.array.off + i + 1]

Min(a, b) == IF a < b THEN a ELSE b

IndexOutOfRange == {"slice.Get: index out of range", "slice.Set: index out of range"}
InvalidRange == {"slice.Sliced: invalid count of indexes", "slice.Sliced: index out of bound"}

\* the index lists 0 <= low <= high <= maxCap <= p.Cap(), maxCap optional
ValidIndexes(p) ==
  {ix \in IndexArgs :
     /\ Len(ix) \in {2, 3}
     /\ LET m == IF Len(ix) = 3 THEN ix[3] ELSE SliceCap(p) IN
        0 <= ix[1] /\ ix[1] <= ix[2] /\ ix[2] <= m /\ m <= SliceCap(p)}

\* s aliases p at offset low: same slots, and Set through one is read by Get
\* through the other wherever both cover the slot
Aliases(h, p, s, low) ==
  /\ \A i \in 0..(SliceCap(s) - 1) : Slot(s, i) = Slot(p, low + i)
  /\ \A i \in 0..(SliceLen(s) - 1), x \in Values :
       LET w == Set(h, s, i, x) IN
       /\ w.err = "ok"
       /\ low + i < SliceLen(p) => Get(w.heap, p, low + i) = Ret("ok", w.heap, NilSlice, x)
  /\ \A j \in low..(SliceLen(p) - 1), x \in Values :
       LET w == Set(h, p, j, x) IN
       /\ w.err = "ok"
       /\ j - low < SliceLen(s) => Get(w.heap, s, j - low) = Ret("ok", w.heap, NilSlice, x)

\* C1: for every non-nil view p and every valid index list, p.Sliced(low,
\* high, maxCap) returns a view of length high - low and capacity maxCap - low
\* that shares p's storage at offset low without copying; a sub-view of the
\* sub-view shares p's storage at the sum of the offsets.
ThmC1 ==
  Running =>
    \A p \in views : \A ix \in ValidIndexes(p) :
      LET r == Sliced(heap, p, ix)
          s == r.res
          m == IF Len(ix) = 3 THEN ix[3] ELSE SliceCap(p)
      IN /\ r.err = "ok"
         /\ r.heap = heap
         /\ ~IsNil(s)
         /\ SliceLen(s) = ix[2] - ix[1]
         /\ SliceCap(s) = m - ix[1]
         /\ Aliases(heap, p, s, ix[1])
         /\ \A jx \in ValidIndexes(s) :
              LET t == Sliced(heap, s, jx).res IN
              \A i \in 0..(SliceCap(t) - 1) : Slot(t, i) = Slot(p, ix[1] + jx[1] + i)

\* the client holds a sub-view p and the non-empty sub-view s that p.Sliced
\* returns at a positive offset
WitC1 ==
  /\ Running
  /\ \E p \in views, s \in views :
       /\ p.array.off > 0
       /\ SliceLen(s) > 0
       /\ \E ix \in ValidIndexes(p) : ix[1] > 0 /\ Sliced(heap, p, ix).res = s

\* C2: Append within capacity (Len + number of values <= Cap, at least one
\* value) allocates nothing, returns a view of the same storage with the new
\* length and the old capacity, keeps slots [0, v.Len()) and writes the values
\* into slots [v.Len(), r.Len()), where every view covering them reads them.
ThmC2 ==
  Running =>
    \A v \in Operands : \A elems \in ElemArgs :
      (Len(elems) >= 1 /\ SliceLen(v) + Len(elems) <= SliceCap(v)) =>
        LET a == SliceAppend(heap, v, elems)
            r == a.res
        IN /\ a.err = "ok"
           /\ Len(a.heap) = Len(heap)
           /\ SliceLen(r) = SliceLen(v) + Len(elems)
           /\ SliceCap(r) = SliceCap(v)
           /\ \A i \in 0..(SliceCap(v) - 1) : Slot(r, i) = Slot(v, i)
           /\ \A i \in 0..(SliceLen(v) - 1) : Cell(a.heap, v, i) = Cell(heap, v, i)
           /\ \A j \in 1..Len(elems) :
                /\ Get(a.heap, r, SliceLen(v) + j - 1).val = elems[j]
                /\ Get(a.heap, Sliced(a.heap, v, <<0, SliceLen(r)>>).res,
                       SliceLen(v) + j - 1).val = elems[j]
                /\ \A u \in views : \A k \in 0..(SliceCap(u) - 1) :
                     Slot(u, k) = Slot(v, SliceLen(v) + j - 1) => Cell(a.heap, u, k) = elems[j]

\* the client holds v and the longer view r that Append(v, values) returned
\* in v's own storage, a non-zero value among the appended ones
WitC2 ==
  /\ Running
  /\ \E v \in views, r \in views : \E elems \in ElemArgs :
       /\ Len(elems) >= 1
       /\ SliceLen(v) + Len(elems) <= SliceCap(v)
       /\ \E j \in 1..Len(elems) : elems[j] # 0
       /\ SliceAppend(heap, v, elems) = Ret("ok", heap, r, 0)

\* C3: Append beyond capacity (Len + number of values > Cap) returns a view of
\* newly allocated storage with the new length and capacity
\* nextSliceCapacity(new length, old capacity) >= new length, holding v's
\* elements followed by the values; the storage that existed before is left
\* unchanged, and no later Set through the result or through v reaches the other.
ThmC3 ==
  Running =>
    \A v \in Operands : \A elems \in ElemArgs :
      (SliceLen(v) + Len(elems) > SliceCap(v)) =>
        LET a == SliceAppend(heap, v, elems)
            r == a.res
            b == r.array.buf
        IN /\ a.err = "ok"
           /\ ~IsNil(r)
           /\ Len(a.heap) = Len(heap) + 1
           /\ b = Len(heap) + 1
           /\ SliceLen(r) = SliceLen(v) + Len(elems)
           /\ SliceCap(r) = nextSliceCapacity(SliceLen(r), SliceCap(v))
           /\ SliceCap(r) >= SliceLen(r)
           /\ \A i \in 0..(SliceLen(v) - 1) : Get(a.heap, r, i).val = Get(heap, v, i).val
           /\ \A j \in 1..Len(elems) : Get(a.heap, r, SliceLen(v) + j - 1).val = elems[j]
           /\ \A c \in 1..Len(heap) : a.heap[c] = heap[c]
           /\ \A i \in 0..(SliceLen(r) - 1), x \in Values :
                LET w == Set(a.heap, r, i, x) IN
                w.err = "ok" /\ \A c \in 1..Len(heap) : w.heap[c] = heap[c]
           /\ \A i \in 0..(SliceLen(v) - 1), x \in Values :
                LET w == Set(a.heap, v, i, x) IN
                w.err = "ok" /\ w.heap[b] = a.heap[b]

\* the client holds a non-empty view v and, in another buffer, a view equal to
\* what Append(v, values) beyond v's capacity returns
WitC3 ==
  /\ Running
  /\ \E v \in views, r \in views : \E elems \in ElemArgs :
       LET a == SliceAppend(heap, v, elems) IN
       /\ SliceLen(v) >= 1
       /\ Cell(heap, v, 0) # 0
       /\ SliceLen(v) + Len(elems) > SliceCap(v)
       /\ a.err = "ok"
       /\ r.array.buf # v.array.buf
       /\ SliceLen(r) = SliceLen(a.res) /\ SliceCap(r) = SliceCap(a.res)
       /\ r.array.off = 0
       /\ heap[r.array.buf] = a.heap[a.res.array.buf]

OrigC5 ==
  Running =>
    \A dst \in Operands, src \in Operands :
      LET c == Copy(heap, dst, src) IN
      \A i \in 0..(Min(SliceLen(dst), SliceLen(src)) - 1) :
        Get(c.heap, dst, i).val = Get(heap, src, i).val

\* C6 as stated: Append returns normally, with a view of length Len() + number
\* of values, for every view (the nil view included) and every number of
\* values (none included).
OrigC6 ==
  Running =>
    \A v \in Operands : \A elems \in ElemArgs :
      LET a == SliceAppend(heap, v, elems) IN
      a.err = "ok" /\ SliceLen(a.res) = SliceLen(v) + Len(elems)

\* the view invariant of C8 for view s over heap h
ViewOK(h, s) ==
  /\ 0 <= SliceLen(s) /\ SliceLen(s) <= SliceCap(s)
  /\ IsNil(s) => SliceLen(s) = 0 /\ SliceCap(s) = 0
  /\ ~IsNil(s) =>
       /\ s.array.buf \in 1..Len(h)
       /\ s.array.off >= 0
       /\ s.array.off + SliceCap(s) <= Len(h[s.array.buf])

\* C8: every view the client can hold, the zero value included, has
\* 0 <= Len() <= Cap(), is nil only with Len() = Cap() = 0, and when non-nil
\* has offset + Cap() within its backing buffer; every view Make (Make(0)
\* included), New, Sliced and Append return is non-nil and satisfies the same.
ThmC8 ==
  Running =>
    /\ \A s \in Operands : ViewOK(heap, s)
    /\ \A s \in views : ~IsNil(s)
    /\ IsNil(NilSlice)
    /\ \A size \in SizeArgs :
         LET r == Make(heap, size) IN
         r.err = "ok" => ~IsNil(r.res) /\ ViewOK(r.heap, r.res)
    /\ Make(heap, <<0>>).err = "ok"
    /\ \A elems \in ElemArgs :
         LET r == New(heap, elems) IN
         r.err = "ok" => ~IsNil(r.res) /\ ViewOK(r.heap, r.res)
    /\ \A s \in Operands :
         /\ \A ix \in IndexArgs :
              LET r == Sliced(heap, s, ix) IN
              r.err = "ok" => ~IsNil(r.res) /\ ViewOK(r.heap, r.res)
         /\ \A elems \in ElemArgs :
              LET r == SliceAppend(heap, s, elems) IN
              r.err = "ok" => ~IsNil(r.res) /\ ViewOK(r.heap, r.res)

\* the client holds an empty non-nil view, and a sub-view at a positive offset
\* whose capacity reaches the end of its buffer
WitC8 ==
  /\ Running
  /\ \E e \in views, s \in views :
       /\ SliceCap(e) = 0
       /\ s.array.off > 0
       /\ SliceLen(s) < SliceCap(s)
       /\ s.array.off + SliceCap(s) = Len(heap[s.array.buf])

\* C9 as stated: on any view p, Sliced fails with InvalidRange exactly when
\* the number of indexes is not 2 or 3, or low < 0, or high < 0, or
\* low > high, or high > p.Cap(), or maxCap < high, or maxCap > p.Cap(), and
\* otherwise returns a view.
OrigC9 ==
  Running =>
    \A p \in Operands : \A ix \in IndexArgs :
      LET r == Sliced(heap, p, ix) IN
      IF ix \in ValidIndexes(p) THEN r.err = "ok" ELSE r.err \in InvalidRange

\* the slots Copy(dst, src) may write: dst's first min(dst.Len(), src.Len())
CopySlots(dst, src) ==
  {Slot(dst, i) : i \in 0..(Min(SliceLen(dst), SliceLen(src)) - 1)}

\* C10: Copy(dst, src) never fails, returns min(dst.Len(), src.Len()) and
\* writes no storage slot other than dst's slots [0, n); it allocates nothing.
ThmC10 ==
  Running =>
    \A dst \in Operands, src \in Operands :
      LET c == Copy(heap, dst, src) IN
      /\ c.err = "ok"
      /\ c.val = Min(SliceLen(dst), SliceLen(src))
      /\ Len(c.heap) = Len(heap)
      /\ \A b \in 1..Len(heap) :
           /\ Len(c.heap[b]) = Len(heap[b])
           /\ \A k \in 1..Len(heap[b]) :
                <<b, k - 1>> \notin CopySlots(dst, src) => c.heap[b][k] = heap[b][k]

\* the client holds a view dst longer than src whose first slots hold what
\* Copy(dst, src) wrote, a non-zero value among them, and a different value
\* behind them
WitC10 ==
  /\ Running
  /\ \E dst \in views, src \in views :
       /\ 1 <= SliceLen(src) /\ SliceLen(src) < SliceLen(dst)
       /\ dst.array.buf # src.array.buf
       /\ Copy(heap, dst, src) = Ret("ok", heap, NilSlice, SliceLen(src))
       /\ Cell(heap, dst, 0) # 0
       /\ Cell(heap, dst, SliceLen(src)) = 0

\* the first value >= newLen of the sequence c, c + c/4, ... in unbounded
\* integers
RECURSIVE FirstAtLeast(_, _)
FirstAtLeast(c, newLen) ==
  IF c >= newLen THEN c ELSE FirstAtLeast(c + (c \div 4), newLen)

\* the growth policy as C7 states it, 2*oldCap being the product
StatedCap(newLen, oldCap) ==
  IF newLen > 2 * oldCap THEN newLen
  ELSE IF oldCap < 1024 THEN 2 * oldCap
  ELSE LET c == FirstAtLeast(oldCap + (oldCap \div 4), newLen) IN
       IF Wrap(c) <= 0 THEN newLen ELSE c

\* C7 as stated: for 0 <= oldCap < newLen, nextSliceCapacity(newLen, oldCap)
\* is newLen if newLen > 2*oldCap, else 2*oldCap if oldCap < 1024, else the
\* first value >= newLen of oldCap's x1.25 sequence (newLen if it wrapped);
\* the result is >= newLen.
OrigC7 ==
  /\ capq.ret = StatedCap(capq.newLen, capq.oldCap)
  /\ capq.ret >= capq.newLen

\* C7 amended: as stated, and the result is also newLen when oldCap + oldCap
\* overflows int, whatever newLen is.
ThmC7 ==
  /\ capq.ret = (IF 2 * capq.oldCap > MaxInt THEN capq.newLen
                 ELSE StatedCap(capq.newLen, capq.oldCap))
  /\ capq.ret >= capq.newLen

\* the x1.25 loop ran more than once and stopped above newLen
WitC7 ==
  /\ capq.oldCap >= threshold
  /\ 2 * capq.oldCap <= MaxInt
  /\ capq.newLen <= 2 * capq.oldCap
  /\ capq.newLen > capq.oldCap + (capq.oldCap \div 4)
  /\ capq.ret > capq.newLen

====
